---- MODULE Spec2Model ----
(***************************************************************************)
(* Seat reservation subsystem of the tiki-taka ticketing backend:          *)
(* holdSeats / releaseSeats / cleanupExpiredHolds (seat service),          *)
(* createCheckoutIntent / finalizeOrder / markOrderFailed (order service), *)
(* the Stripe webhook and the TTL index of the SeatHold collection, and    *)
(* the set-up of an event: uploadSvgSeatMap / createEvent / publishEvent.  *)
(*                                                                         *)
(* Every request is a process that runs from one store operation (an       *)
(* `await` on a Mongoose call) to the next; one step of a request commits  *)
(* the pending store operation and runs the synchronous code that follows  *)
(* it up to the next `await`.  A single store statement (find, updateMany, *)
(* create, deleteOne, save) is one atomic step; the updateMany of          *)
(* finalizeOrder, which MongoDB applies one document at a time, can also   *)
(* be overtaken between two rows by a request that runs beside it.         *)
(***************************************************************************)
EXTENDS Integers, FiniteSets, Sequences, TLC

\* ---------------------------------------------------------------- bounds
Seats == {"A-R1-S1", "A-R1-S2"}
\* the order in which the store returns the seat rows of the event
SeatIndex == [s \in Seats |-> IF s = "A-R1-S1" THEN 1 ELSE 2]
Sessions == {"sess1", "sess2"}
Procs == {"p1", "p2"}
\* requests the clients issue in a run with two processes, and with one
MaxCalls == 3
MaxSeqCalls == 4
MaxTime == 2
\* requests and clock periods of a run in which the cleanup job keeps its schedule
MaxTimedCalls == 2
MaxTimedTime == 4
\* requests of a run that starts with the set-up of the event
MaxPublishCalls == 2
\* the two holdSeats calls of a race
MaxRaceCalls == 2
\* requests issued, and minutes counted, while lastUpdated is followed
MaxJobCalls == 3
MaxJobTime == 4
\* requests issued to the order service alone
MaxOrderCalls == 4
\* requests of a run in which any request is sent to holdSeats, and the
\* maxSeatsPerHold that run is configured with
MaxInputCalls == 3
SmallHoldCap == 1
\* requests of a run in which the sessions have users
MaxUserCalls == 3
\* requests in an execution with the scanner
MaxScanCalls == 4
\* requests issued while the Redis commands are followed
MaxRedisCalls == 4

\* ------------------------------------------------------ program constants
\* SEAT_HOLD_EXPIRY_MINUTES, configured to one minute; the clock unit is a minute.
SEAT_HOLD_EXPIRY_MINUTES == 1

\* the schedule of the cleanup job, '* * * * *': one run per minute
WorkerPeriod == 1

SEAT_HOLD_CONFIG == [maxSeatsPerHold |-> 10]

AVAILABLE == "available"
HELD == "held"
SOLD == "sold"
PENDING == "pending"
SUCCEEDED == "succeeded"
FAILED == "failed"
\* TICKET_STATUS
VALID == "valid"
USED == "used"
CANCELLED == "cancelled"

Null == 0
\* a request creates at most one SeatHold row and one Order row
HoldIds == 1..MaxSeqCalls
\* the ticket codes a scanner may read: those of the tickets of every seat,
\* and one of no ticket
TicketCodes == 1..3
\* the event of the model, and another one
TheEvent == "event1"
EventIds == {TheEvent, "event2"}
OrderIds == 1..MaxSeqCalls

VARIABLES
    stripe,      \* TRUE iff a payment provider is configured (config/stripe.ts)
    now,         \* the clock, in minutes
    seats,       \* EventSeatState rows of the one published event, by seatId
    holds,       \* SeatHold rows by _id
    numHolds,    \* number of SeatHold rows created so far
    orders,      \* Order rows by _id
    numOrders,   \* number of Order rows created so far
    tickets,     \* Ticket rows, in creation order
    soldCount,   \* Event.soldCount
    calls,       \* the request each process is running, with its local variables
    venue,       \* the Venue row: the seat ids of its seat map, and totalSeats
    event,       \* the Event row: status and totalCapacity
    env,         \* the deployment: the processes that serve requests, the client
                 \* sessions, how long the run lasts, whether the cleanup job
                 \* is known to run to completion in every clock period, and
                 \* whether the Redis commands of the services are followed (the
                 \* services write the keys and never read them; where they are
                 \* not followed, Redis is up and a command is part of the
                 \* store operation before it), and whether the lastUpdated
                 \* of the seat rows is followed (only the cleanup job reads it
                 \* to decide something; where it is not followed it stays 0),
                 \* the configured maxSeatsPerHold, and the authenticated user
                 \* of each session's requests, if any (a hold row carries the
                 \* userId of the request that created it)
    cronDone,    \* the cleanup job has completed in the current clock period
    budget,      \* number of requests the clients will still issue
    cache,       \* the Redis keys hold:{holdId}, by holdId
    quote,       \* the pricing of one order: the event's pricingZones, the
                 \* order's seatIds as their '-' separated tokens, the result
                 \* of calculatePricing and the ticket data of finalizeOrder
    ret          \* the response of the request that completed in the last step

vars == <<stripe, now, seats, holds, numHolds, orders, numOrders, tickets,
          soldCount, calls, venue, event, env, cronDone, budget, cache, quote, ret>>

\* what the store operations of the services leave alone
config == <<stripe, env, venue, event, cache, quote>>
holdStore == <<holds, numHolds>>
orderStore == <<orders, numOrders, tickets, soldCount>>

\* ------------------------------------------------------------------ rows
DRAFT == "draft"
PUBLISHED == "published"

\* the venue before a seat map is uploaded: seatIndex empty, totalSeats 0
NoVenue == [seatIndex |-> {}, totalSeats |-> 0]

NoEvent == [exists |-> FALSE, status |-> DRAFT, totalCapacity |-> 0]

\* lastUpdated is a time in minutes
SeatRow(st, h, o) == [status |-> st, holdId |-> h, orderId |-> o, lastUpdated |-> 0]

NoHoldRow == [exists |-> FALSE, seatIds |-> {}, sessionId |-> "", expiresAt |-> 0]

\* no order is being priced
NoQuote == [pc |-> "none", pricingZones |-> <<>>, seatIds |-> {}, perSeat |-> <<>>,
            subtotal |-> 0, ticketData |-> <<>>]

\* a Redis key that is not set
NoEntry == [exists |-> FALSE, seatIds |-> {}, sessionId |-> "", expiresAt |-> 0]

\* sessionId is the session whose createCheckoutIntent created the order; Order.create
\* does not store it, it is kept for the statements about the session of an order
NoOrderRow == [exists |-> FALSE, seatIds |-> {}, paymentStatus |-> PENDING,
               ticketIds |-> {}, sessionId |-> ""]

\* A request record.  op/pc say where the request is; the rest are its
\* arguments and its local variables.  When the request returns (result "ok")
\* or throws AppError(status), pc = "done" and result is the outcome.
Idle == [op |-> "idle", pc |-> "idle", sessionId |-> "", seatIds |-> {},
         holdId |-> Null, orderId |-> Null, existingHold |-> NoHoldRow,
         snap |-> <<>>, holdDocs |-> <<>>, todo |-> {}, flipped |-> {},
         created |-> Null, expiresAt |-> 0, seat |-> "", ticketIds |-> {},
         soldCount |-> 0, cleanedCount |-> 0, errors |-> 0,
         ticket |-> Null, ticketDoc |-> <<>>,
         result |-> "none"]

Done(c, res) == [c EXCEPT !.pc = "done", !.result = res]

\* No request completed in the last step.
NoRet == [Idle EXCEPT !.pc = "done"]

\* One step of process p that leaves its request in state d: a request that
\* is done hands its response to ret and frees the process.
Step(p, d) ==
    IF d.pc = "done"
    THEN /\ calls' = [calls EXCEPT ![p] = Idle]
         /\ ret' = [d EXCEPT !.existingHold = NoHoldRow, !.snap = <<>>,
                             !.holdDocs = <<>>, !.todo = {}, !.expiresAt = 0,
                             !.seat = "", !.ticketIds = {}, !.soldCount = 0,
                             !.ticketDoc = <<>>]
    ELSE /\ calls' = [calls EXCEPT ![p] = d]
         /\ ret' = NoRet

\* ------------------------------------------------------ store operations
\* lastUpdated: new Date()
Stamp == IF env.stamps THEN now ELSE 0

\* the update of holdSeats without its status condition
MatchingAnyStatus(S, st) == S

\* EventSeatState.updateMany({seatId: {$in: S}, status: from}, {$set: {status: HELD, holdId: h}})
Matching(S, st) == {s \in S : seats[s].status = st}

SetHeld(M, h) ==
    [s \in DOMAIN seats |-> IF s \in M THEN [seats[s] EXCEPT !.status = HELD, !.holdId = h,
                                                      !.lastUpdated = Stamp]
                     ELSE seats[s]]

\* {$set: {status: AVAILABLE}, $unset: {holdId: 1}} on the rows M
SetAvailable(M) ==
    [s \in DOMAIN seats |-> IF s \in M THEN [seats[s] EXCEPT !.status = AVAILABLE, !.holdId = Null]
                     ELSE seats[s]]

\* {$set: {status: SOLD, orderId: o, lastUpdated}} on the rows M (holdId is
\* left as it is)
SetSold(M, o) ==
    [s \in DOMAIN seats |-> IF s \in M THEN [seats[s] EXCEPT !.status = SOLD, !.orderId = o,
                                                      !.lastUpdated = Stamp]
                     ELSE seats[s]]

\* hold.expiresAt < new Date()
Expired(h) == h.expiresAt < now

\* A request starts on the first free process.
CanStart(p) ==
    /\ p \in env.procs
    /\ calls[p].op = "idle"
    /\ p = "p2" => calls["p1"].op # "idle"

\* No hold, no order, no request.
NoRequests ==
    /\ now = 0
    /\ holds = [h \in HoldIds |-> NoHoldRow]
    /\ numHolds = 0
    /\ orders = [o \in OrderIds |-> NoOrderRow]
    /\ numOrders = 0
    /\ tickets = <<>>
    /\ soldCount = 0
    /\ calls = [p \in Procs |-> Idle]
    /\ ret = NoRet
    /\ cronDone = FALSE
    /\ cache = [h \in HoldIds |-> NoEntry]
    /\ quote = NoQuote

\* The state after the event is published: the venue has the seat map Seats,
\* the event was created from it and published, every seat is AVAILABLE.
Fresh ==
    /\ NoRequests
    /\ venue = [seatIndex |-> Seats, totalSeats |-> Cardinality(Seats)]
    /\ event = [exists |-> TRUE, status |-> PUBLISHED, totalCapacity |-> Cardinality(Seats)]
    /\ seats = [s \in Seats |-> SeatRow(AVAILABLE, Null, Null)]

\* a request without an authenticated user: userId is undefined
Guest == ""

Env(procs, sessions, horizon, cron) ==
    [procs |-> procs, sessions |-> sessions, horizon |-> horizon, cron |-> cron,
     redis |-> FALSE, stamps |-> FALSE,
     maxSeatsPerHold |-> SEAT_HOLD_CONFIG.maxSeatsPerHold,
     users |-> [s \in Sessions |-> Guest]]

\* Two processes serve the requests of two sessions, with a payment provider.
Init ==
    /\ Fresh
    /\ stripe = TRUE
    /\ env = Env(Procs, Sessions, MaxTime, FALSE)
    /\ budget = MaxCalls

\* Two processes serve the requests of one session (two tabs of a client).
InitAll ==
    /\ Fresh
    /\ stripe = TRUE
    /\ env = Env(Procs, {"sess1"}, MaxTime, FALSE)
    /\ budget = MaxCalls

\* One process serves the requests one after the other, in provider or mock mode.
InitSeq ==
    /\ Fresh
    /\ stripe \in BOOLEAN
    /\ env = Env({"p1"}, Sessions, MaxTime, FALSE)
    /\ budget = MaxSeqCalls

\* Two processes serve two sessions and the cleanup job, which runs to
\* completion in every period of its schedule.
InitTimed ==
    /\ Fresh
    /\ stripe = TRUE
    /\ env = Env(Procs, Sessions, MaxTimedTime, TRUE)
    /\ budget = MaxTimedCalls

\* The clock advances by one period of the cleanup job ('* * * * *': a minute).
\* Where the job is known to keep its schedule, it has run to completion in the
\* period, and so has every request, which takes far less than a minute.
\* There the periods go on past the horizon of the run, the job firing in each:
\* the clock value is then no longer counted.
Tick ==
    /\ now < env.horizon \/ env.cron
    /\ env.cron => (cronDone /\ \A p \in Procs : calls[p].op = "idle")
    /\ now' = IF now < env.horizon THEN now + WorkerPeriod ELSE now
    /\ cronDone' = FALSE
    /\ ret' = NoRet
    /\ UNCHANGED <<config, holdStore, orderStore, seats, calls, budget>>

\* The TTL index of the SeatHold collection: MongoDB deletes an expired row.
TTLIndexDelete(h) ==
    /\ holds[h].exists
    /\ Expired(holds[h])
    /\ holds' = [holds EXCEPT ![h].exists = FALSE]
    /\ ret' = NoRet
    /\ UNCHANGED <<config, orderStore, now, seats, numHolds, calls, budget, cronDone>>

\* ------------------------------------------------------------ holdSeats
\* seats.filter((s) => s.status === HELD && s.holdId), on the rows the call read
HeldSeats(c) == {s \in c.seatIds : c.snap[s].status = HELD /\ c.snap[s].holdId # Null}

\* the seats whose hold is missing from holdMap, or expired
StaleSeatIds(c) ==
    {s \in HeldSeats(c) : \/ c.snap[s].holdId \notin DOMAIN c.holdDocs
                          \/ Expired(c.holdDocs[c.snap[s].holdId])}

\* hold && hold.sessionId !== sessionId && hold.expiresAt >= new Date()
BlockedSeats(c) ==
    {s \in HeldSeats(c) : /\ c.snap[s].holdId \in DOMAIN c.holdDocs
                          /\ c.holdDocs[c.snap[s].holdId].sessionId # c.sessionId
                          /\ c.holdDocs[c.snap[s].holdId].expiresAt >= now}

\* seats that are AVAILABLE in the rows read and not yet in the session's hold
SeatsToAdd(c) ==
    {s \in c.seatIds : c.snap[s].status = AVAILABLE /\ s \notin c.existingHold.seatIds}

\* The code after the held-seat checks, up to the next store operation:
\* the existing-hold branch, or the unavailable-seat check of the new-hold branch.
HoldBranch(c) ==
    IF c.holdId # Null
    THEN IF SeatsToAdd(c) # {}
         THEN [c EXCEPT !.pc = "extendUpdate", !.todo = SeatsToAdd(c)]
         ELSE [c EXCEPT !.pc = "extendSave", !.todo = {},
                        !.expiresAt = now + SEAT_HOLD_EXPIRY_MINUTES]
    ELSE IF \E s \in c.seatIds : c.snap[s].status # AVAILABLE
         THEN Done(c, "409")
         ELSE [c EXCEPT !.pc = "createHold", !.todo = {},
                        !.expiresAt = now + SEAT_HOLD_EXPIRY_MINUTES]

\* holdSeats without its checks of the rows read: straight to SeatHold.create
BlockedCheckSkipped(c) ==
    [c EXCEPT !.pc = "createHold", !.todo = {},
              !.expiresAt = now + SEAT_HOLD_EXPIRY_MINUTES]

\* The blocked-seat check: 409 when a requested seat is held by a live hold
\* of another session.
BlockedCheck(c) == IF BlockedSeats(c) # {} THEN Done(c, "409") ELSE HoldBranch(c)

\* The code from a store operation to the Redis command that follows it.
ToRedis(c, pc) == IF env.redis THEN [c EXCEPT !.pc = pc] ELSE Done(c, "ok")

\* A client or the payment provider issues a request: it starts on a free
\* process and runs to its first store operation.
Issue ==
    /\ budget > 0
    /\ budget' = budget - 1

\* While no hold row, no order and no running request names a session, the sessions
\* are interchangeable: the next request of a session is taken to be sess1's.
Unnamed == numHolds = 0 /\ numOrders = 0 /\ \A p \in Procs : calls[p].op = "idle"

MayAsk(sess) == Unnamed => sess = "sess1"

\* the event check without the test of the status
HoldSeatsInputAnyStatus(req) ==
    IF Cardinality(req) = 0 THEN "400"
    ELSE IF Cardinality(req) > env.maxSeatsPerHold THEN "400"
    ELSE IF ~event.exists THEN "404"
    ELSE "ok"

\* The input checks of holdSeats, Event.findById and the event checks: the
\* status of the AppError thrown, or "ok".
HoldSeatsInput(req) ==
    IF Cardinality(req) = 0 THEN "400"
    ELSE IF Cardinality(req) > env.maxSeatsPerHold THEN "400"
    ELSE IF ~event.exists THEN "404"
    ELSE IF event.status # PUBLISHED THEN "400"
    ELSE "ok"

\* holdSeats is called for a published event with 1..maxSeatsPerHold seats
\* that the event has; Event.findById, then
\* SeatHold.findOne({eventId, sessionId})
HoldSeatsCall(p, sess, req) ==
    LET mine == {h \in HoldIds : holds[h].exists /\ holds[h].sessionId = sess}
    IN /\ CanStart(p)
       /\ Issue
       /\ MayAsk(sess)
       /\ HoldSeatsInput(req) = "ok"
       /\ \E h \in (IF mine = {} THEN {Null} ELSE mine) :
            Step(p, [Idle EXCEPT !.op = "holdSeats", !.pc = "findSeats",
                                 !.sessionId = sess, !.seatIds = req, !.holdId = h,
                                 !.existingHold = IF h = Null THEN NoHoldRow ELSE holds[h]])
       /\ UNCHANGED <<config, holdStore, orderStore, now, seats, cronDone>>

\* holdSeats is called with any other request: one that fails the checks, or
\* one that names a seat the event has no row for
HoldSeatsOther(p, sess, req) ==
    LET mine == {h \in HoldIds : holds[h].exists /\ holds[h].sessionId = sess}
        c == [Idle EXCEPT !.op = "holdSeats", !.sessionId = sess, !.seatIds = req]
    IN /\ CanStart(p)
       /\ Issue
       /\ MayAsk(sess)
       /\ HoldSeatsInput(req) # "ok" \/ ~(req \subseteq DOMAIN seats)
       /\ \E h \in (IF mine = {} THEN {Null} ELSE mine) :
            Step(p, IF HoldSeatsInput(req) # "ok" THEN Done(c, HoldSeatsInput(req))
                    ELSE [c EXCEPT !.pc = "findSeats", !.holdId = h,
                                   !.existingHold = IF h = Null THEN NoHoldRow ELSE holds[h]])
       /\ UNCHANGED <<config, holdStore, orderStore, now, seats, cronDone>>

\* EventSeatState.find({eventId, seatId: {$in: seatIds}}); 400 when a seatId
\* has no row
HoldSeatsFindSeats(p) ==
    LET c == calls[p]
        found == c.seatIds \cap DOMAIN seats
        d == [c EXCEPT !.snap = [s \in found |-> seats[s]]]
    IN /\ c.op = "holdSeats" /\ c.pc = "findSeats"
       /\ Step(p, IF Cardinality(found) # Cardinality(c.seatIds) THEN Done(c, "400")
                  ELSE IF HeldSeats(d) # {} THEN [d EXCEPT !.pc = "findHoldDocs"]
                  ELSE HoldBranch(d))
       /\ UNCHANGED <<config, holdStore, orderStore, now, seats, budget, cronDone>>

\* SeatHold.find({_id: {$in: holdIds}}), then the stale-seat computation
HoldSeatsFindHoldDocs(p) ==
    LET c == calls[p]
        ids == {c.snap[s].holdId : s \in HeldSeats(c)}
        d == [c EXCEPT !.holdDocs = [h \in {i \in ids : holds[i].exists} |-> holds[h]]]
    IN /\ c.op = "holdSeats" /\ c.pc = "findHoldDocs"
       /\ Step(p, IF StaleSeatIds(d) # {}
               THEN [d EXCEPT !.pc = "releaseStale", !.todo = StaleSeatIds(d)]
               ELSE BlockedCheck(d))
       /\ UNCHANGED <<config, holdStore, orderStore, now, seats, budget, cronDone>>

\* updateMany({seatId: {$in: staleSeatIds}, status: HELD}, -> AVAILABLE, unset holdId)
HoldSeatsReleaseStale(p) ==
    LET c == calls[p]
    IN /\ c.op = "holdSeats" /\ c.pc = "releaseStale"
       /\ seats' = SetAvailable(Matching(c.todo, HELD))
       /\ Step(p, BlockedCheck(c))
       /\ UNCHANGED <<config, holdStore, orderStore, now, budget, cronDone>>

\* existing hold: updateMany({seatId: {$in: seatsToAdd}, status: AVAILABLE}, -> HELD)
HoldSeatsExtendUpdate(p) ==
    LET c == calls[p]
        M == Matching(c.todo, AVAILABLE)
        d == [c EXCEPT !.flipped = M]
    IN /\ c.op = "holdSeats" /\ c.pc = "extendUpdate"
       /\ seats' = SetHeld(M, c.holdId)
       /\ Step(p, IF Cardinality(M) # Cardinality(c.todo)
               THEN Done(d, "409")
               ELSE [d EXCEPT !.pc = "extendSave", !.todo = {},
                              !.expiresAt = now + SEAT_HOLD_EXPIRY_MINUTES])
       /\ UNCHANGED <<config, holdStore, orderStore, now, budget, cronDone>>

\* existingHold.save() with the new expiry only, the seat list left as it was
HoldSeatsExtendSaveNoMerge(p) ==
    LET c == calls[p]
    IN /\ c.op = "holdSeats" /\ c.pc = "extendSave"
       /\ holds[c.holdId].exists
       /\ holds' = [holds EXCEPT ![c.holdId].expiresAt = c.expiresAt]
       /\ Step(p, Done(c, "ok"))
       /\ UNCHANGED <<config, orderStore, now, seats, numHolds, budget, cronDone>>

\* existingHold.save(): the new expiry and the merged seat list; Mongoose
\* throws DocumentNotFoundError when the row has been deleted meanwhile.
HoldSeatsExtendSave(p) ==
    LET c == calls[p]
    IN /\ c.op = "holdSeats" /\ c.pc = "extendSave"
       /\ IF holds[c.holdId].exists
          THEN /\ holds' = [holds EXCEPT ![c.holdId].expiresAt = c.expiresAt,
                                         ![c.holdId].seatIds = c.existingHold.seatIds \cup c.seatIds]
               /\ Step(p, ToRedis(c, "extendSetEx"))
          ELSE /\ holds' = holds
               /\ Step(p, Done(c, "500"))
       /\ UNCHANGED <<config, orderStore, now, seats, numHolds, budget, cronDone>>

\* new hold: SeatHold.create({eventId, seatIds, sessionId, userId, expiresAt})
HoldSeatsCreate(p) ==
    LET c == calls[p]
        id == numHolds + 1
    IN /\ c.op = "holdSeats" /\ c.pc = "createHold"
       /\ holds' = [holds EXCEPT ![id] = [exists |-> TRUE, seatIds |-> c.seatIds,
                                          sessionId |-> c.sessionId,
                                          expiresAt |-> c.expiresAt]]
       /\ numHolds' = id
       /\ Step(p, [c EXCEPT !.pc = "holdUpdate", !.holdId = id,
                                                  !.created = id])
       /\ UNCHANGED <<config, orderStore, now, seats, budget, cronDone>>

\* new hold: updateMany({seatId: {$in: seatIds}, status: AVAILABLE}, -> HELD, holdId)
HoldSeatsUpdate(p) ==
    LET c == calls[p]
        M == Matching(c.seatIds, AVAILABLE)
        d == [c EXCEPT !.flipped = M]
    IN /\ c.op = "holdSeats" /\ c.pc = "holdUpdate"
       /\ seats' = SetHeld(M, c.holdId)
       /\ Step(p, IF Cardinality(M) # Cardinality(c.seatIds)
               THEN [d EXCEPT !.pc = "rollbackDelete"]
               ELSE ToRedis(d, "holdSetEx"))
       /\ UNCHANGED <<config, holdStore, orderStore, now, budget, cronDone>>

\* rollback: SeatHold.deleteOne({_id: hold._id}), then the 409
HoldSeatsRollback(p) ==
    LET c == calls[p]
    IN /\ c.op = "holdSeats" /\ c.pc = "rollbackDelete"
       /\ holds' = [holds EXCEPT ![c.holdId].exists = FALSE]
       /\ Step(p, Done(c, "409"))
       /\ UNCHANGED <<config, orderStore, now, seats, numHolds, budget, cronDone>>

\* the steps of holdSeats that a request takes when no other request races it
holdSeats(p) ==
    \/ \E sess \in env.sessions, req \in SUBSET DOMAIN seats : HoldSeatsCall(p, sess, req)
    \/ HoldSeatsFindSeats(p)
    \/ HoldSeatsFindHoldDocs(p)
    \/ HoldSeatsReleaseStale(p)
    \/ HoldSeatsExtendUpdate(p)
    \/ HoldSeatsExtendSave(p)
    \/ HoldSeatsCreate(p)
    \/ HoldSeatsUpdate(p)

\* --------------------------------------------------------- releaseSeats
\* the update of releaseSeats and of the cleanup job without its status condition
HeldUnderAnyStatus(h) == {s \in DOMAIN seats : seats[s].holdId = h}

\* EventSeatState.updateMany({holdId: h, status: HELD}, ...) matches these rows
HeldUnder(h) == {s \in DOMAIN seats : seats[s].holdId = h /\ seats[s].status = HELD}

\* releaseSeats is called; first store operation: SeatHold.findById(holdId),
\* then the 404 and the session check
ReleaseSeatsCall(p, h, sess) ==
    LET c == [Idle EXCEPT !.op = "releaseSeats", !.sessionId = sess, !.holdId = h]
    IN /\ CanStart(p)
       /\ Issue
       /\ h <= numHolds
       /\ Step(p, IF ~holds[h].exists THEN Done(c, "404")
                  ELSE IF holds[h].sessionId # sess THEN Done(c, "403")
                  ELSE [c EXCEPT !.pc = "releaseUpdate"])
       /\ UNCHANGED <<config, holdStore, orderStore, now, seats, cronDone>>

\* 1. updateMany({holdId, status: HELD}, -> AVAILABLE, unset holdId)
ReleaseSeatsUpdate(p) ==
    LET c == calls[p]
    IN /\ c.pc = "releaseUpdate"
       /\ seats' = SetAvailable(HeldUnder(c.holdId))
       /\ Step(p, [c EXCEPT !.pc = "releaseDelete", !.flipped = HeldUnder(c.holdId)])
       /\ UNCHANGED <<config, holdStore, orderStore, now, budget, cronDone>>

\* releaseSeats going on to the cache without deleting the hold row
ReleaseSeatsDeleteSkipped(p) ==
    LET c == calls[p]
    IN /\ c.pc = "releaseDelete"
       /\ Step(p, ToRedis(c, "releaseDel"))
       /\ UNCHANGED <<config, holdStore, orderStore, now, seats, budget, cronDone>>

\* 2. SeatHold.deleteOne({_id: hold._id})
ReleaseSeatsDelete(p) ==
    LET c == calls[p]
    IN /\ c.pc = "releaseDelete"
       /\ holds' = [holds EXCEPT ![c.holdId].exists = FALSE]
       /\ Step(p, ToRedis(c, "releaseDel"))
       /\ UNCHANGED <<config, orderStore, now, seats, numHolds, budget, cronDone>>

releaseSeats(p) ==
    \/ \E h \in HoldIds, sess \in env.sessions : ReleaseSeatsCall(p, h, sess)
    \/ ReleaseSeatsUpdate(p)
    \/ ReleaseSeatsDelete(p)

\* -------------------------------------------------- cleanupExpiredHolds
Min(S) == CHOOSE x \in S : \A y \in S : x <= y

\* The cleanup job fires; first store operation:
\* SeatHold.find({expiresAt: {$lt: new Date()}}).  The loop takes the holds in
\* _id order; todo holds the ones not yet cleaned.
CleanupCall(p) ==
    LET expired == {h \in HoldIds : holds[h].exists /\ Expired(holds[h])}
        c == [Idle EXCEPT !.op = "cleanupExpiredHolds"]
    IN /\ CanStart(p)
       /\ expired # {}
       /\ Step(p, [c EXCEPT !.pc = "cleanupUpdate", !.todo = expired,
                            !.holdId = Min(expired)])
       /\ UNCHANGED <<config, holdStore, orderStore, now, seats, budget, cronDone>>

\* The job fires and finds no expired hold: it returns 0.
CleanupNone(p) ==
    /\ CanStart(p)
    /\ env.cron /\ ~cronDone
    /\ {h \in HoldIds : holds[h].exists /\ Expired(holds[h])} = {}
    /\ cronDone' = TRUE
    /\ ret' = NoRet
    /\ UNCHANGED <<config, holdStore, orderStore, now, seats, budget, calls>>

\* updateMany({holdId: hold._id, status: HELD}, -> AVAILABLE, unset holdId)
CleanupUpdate(p) ==
    LET c == calls[p]
    IN /\ c.pc = "cleanupUpdate"
       /\ seats' = SetAvailable(HeldUnder(c.holdId))
       /\ Step(p, [c EXCEPT !.pc = "cleanupDelete",
                            !.flipped = c.flipped \cup HeldUnder(c.holdId)])
       /\ UNCHANGED <<config, holdStore, orderStore, now, budget, cronDone>>

\* The end of the loop body for the current hold, with n holds cleaned so far:
\* the next hold of the list, or the return of cleanedCount.
CleanupLoop(c, n) ==
    LET rest == c.todo \ {c.holdId}
    IN IF rest = {} THEN Done([c EXCEPT !.todo = {}, !.cleanedCount = n], "ok")
       ELSE [c EXCEPT !.pc = "cleanupUpdate", !.todo = rest, !.holdId = Min(rest),
                      !.cleanedCount = n]

\* SeatHold.deleteOne({_id: hold._id}), then cleanedCount++ and the next hold
CleanupDelete(p) ==
    LET c == calls[p]
        d == IF env.redis THEN [c EXCEPT !.pc = "cleanupDel"]
             ELSE CleanupLoop(c, c.cleanedCount + 1)
    IN /\ c.pc = "cleanupDelete"
       /\ holds' = [holds EXCEPT ![c.holdId].exists = FALSE]
       /\ Step(p, d)
       /\ cronDone' = (cronDone \/ (env.cron /\ d.pc = "done"))
       /\ UNCHANGED <<config, orderStore, now, seats, numHolds, budget>>

cleanupExpiredHolds(p) ==
    \/ CleanupCall(p)
    \/ CleanupUpdate(p)
    \/ CleanupDelete(p)

\* ------------------------------------------------------- Redis commands
\* A command either is carried out, or fails (an error reply of the server, a
\* closed client) and the awaited promise rejects.

\* new hold: await redisClient.setEx(`hold:${hold._id}`, ttl, {seatIds, ...});
\* holdSeats has no handler around it, a rejection leaves the call as an error
HoldSeatsSetEx(p) ==
    LET c == calls[p]
    IN /\ c.op = "holdSeats" /\ c.pc = "holdSetEx"
       /\ \/ /\ cache' = [cache EXCEPT ![c.holdId] =
                             [exists |-> TRUE, seatIds |-> c.seatIds,
                              sessionId |-> c.sessionId, expiresAt |-> c.expiresAt]]
             /\ Step(p, Done(c, "ok"))
          \/ /\ cache' = cache
             /\ Step(p, Done(c, "500"))
       /\ UNCHANGED <<stripe, env, venue, event, quote, holdStore, orderStore, now, seats,
                      budget, cronDone>>

\* existing hold: await redisClient.setEx(`hold:${existingHold._id}`, ttl,
\* {seatIds: existingHold.seatIds, ...}) with the merged list
HoldSeatsExtendSetEx(p) ==
    LET c == calls[p]
    IN /\ c.op = "holdSeats" /\ c.pc = "extendSetEx"
       /\ \/ /\ cache' = [cache EXCEPT ![c.holdId] =
                             [exists |-> TRUE,
                              seatIds |-> c.existingHold.seatIds \cup c.seatIds,
                              sessionId |-> c.sessionId, expiresAt |-> c.expiresAt]]
             /\ Step(p, Done(c, "ok"))
          \/ /\ cache' = cache
             /\ Step(p, Done(c, "500"))
       /\ UNCHANGED <<stripe, env, venue, event, quote, holdStore, orderStore, now, seats,
                      budget, cronDone>>

\* 3. await redisClient.del(`hold:${holdId}`), no handler around it either
ReleaseSeatsDel(p) ==
    LET c == calls[p]
    IN /\ c.op = "releaseSeats" /\ c.pc = "releaseDel"
       /\ \/ /\ cache' = [cache EXCEPT ![c.holdId] = NoEntry]
             /\ Step(p, Done(c, "ok"))
          \/ /\ cache' = cache
             /\ Step(p, Done(c, "500"))
       /\ UNCHANGED <<stripe, env, venue, event, quote, holdStore, orderStore, now, seats,
                      budget, cronDone>>

\* a catch block that gives up the loop and fails the job
CleanupCatchRethrow(c) == Done([c EXCEPT !.todo = {}], "500")

\* catch (error) { console.error(...) }: one more error line is logged,
\* cleanedCount is not incremented and the loop goes on with the next hold
CleanupCatch(c) == CleanupLoop([c EXCEPT !.errors = c.errors + 1], c.cleanedCount)

\* await redisClient.del(`hold:${hold._id}`) inside the try of the loop body,
\* then cleanedCount++
CleanupDel(p) ==
    LET c == calls[p]
    IN /\ c.op = "cleanupExpiredHolds" /\ c.pc = "cleanupDel"
       /\ \E d \in {CleanupLoop(c, c.cleanedCount + 1), CleanupCatch(c)} :
            /\ cache' = IF d.cleanedCount > c.cleanedCount
                        THEN [cache EXCEPT ![c.holdId] = NoEntry] ELSE cache
            /\ Step(p, d)
            /\ cronDone' = (cronDone \/ (env.cron /\ d.pc = "done"))
       /\ UNCHANGED <<stripe, env, venue, event, quote, holdStore, orderStore, now, seats,
                      budget>>

\* ------------------------------------------------- createCheckoutIntent
First(S) == CHOOSE s \in S : \A u \in S : SeatIndex[s] <= SeatIndex[u]

After(S, s) == {u \in S : SeatIndex[u] > SeatIndex[s]}

\* assertSeatAvailability, the loop over the rows read, up to its next store
\* operation: AVAILABLE rows are passed over, a SOLD row throws 409, a HELD
\* row with a holdId has its hold looked up.  todo holds the rows not yet seen.
CheckLoop(c) ==
    LET stop == {s \in c.todo : \/ c.snap[s].status = SOLD
                                \/ c.snap[s].status = HELD /\ c.snap[s].holdId # Null}
    IN IF stop = {} THEN [c EXCEPT !.pc = "createOrder", !.todo = {}]
       ELSE IF c.snap[First(stop)].status = SOLD THEN Done(c, "409")
       ELSE [c EXCEPT !.pc = "checkHold", !.seat = First(stop),
                      !.todo = After(c.todo, First(stop))]

\* createCheckoutIntent is called; first store operation:
\* EventSeatState.find({eventId, seatId: {$in: seatIds}})
CheckoutCall(p, sess, req) ==
    /\ CanStart(p)
    /\ Issue
    /\ MayAsk(sess)
    /\ req # {}
    /\ Step(p, CheckLoop([Idle EXCEPT !.op = "createCheckoutIntent", !.sessionId = sess,
                                      !.seatIds = req, !.todo = req,
                                      !.snap = [s \in req |-> seats[s]]]))
    /\ UNCHANGED <<config, holdStore, orderStore, now, seats, cronDone>>

\* the userId of the requests of a session, and so of the hold rows it creates
UserOf(sess) == env.users[sess]

\* the hold lookup of assertSeatAvailability without the ownership test
CheckoutFindHoldAnyOwner(p) ==
    LET c == calls[p]
        hold == holds[c.snap[c.seat].holdId]
    IN /\ c.pc = "checkHold"
       /\ Step(p, IF ~hold.exists \/ Expired(hold) THEN [c EXCEPT !.pc = "checkRelease"]
                  ELSE CheckLoop(c))
       /\ UNCHANGED <<config, holdStore, orderStore, now, seats, budget, cronDone>>

\* SeatHold.findById(seat.holdId): a missing or expired hold has its seat
\* released; a live hold of another session, and not of the caller's user,
\* throws 409
CheckoutFindHold(p) ==
    LET c == calls[p]
        hold == holds[c.snap[c.seat].holdId]
    IN /\ c.pc = "checkHold"
       /\ Step(p, IF ~hold.exists \/ Expired(hold) THEN [c EXCEPT !.pc = "checkRelease"]
                  ELSE IF /\ hold.sessionId # c.sessionId
                          /\ \/ UserOf(c.sessionId) = Guest
                             \/ UserOf(hold.sessionId) # UserOf(c.sessionId)
                       THEN Done(c, "409")
                  ELSE CheckLoop(c))
       /\ UNCHANGED <<config, holdStore, orderStore, now, seats, budget, cronDone>>

\* EventSeatState.updateOne({_id: seat._id, status: HELD}, -> AVAILABLE, unset holdId)
CheckoutRelease(p) ==
    LET c == calls[p]
    IN /\ c.pc = "checkRelease"
       /\ seats' = SetAvailable(Matching({c.seat}, HELD))
       /\ Step(p, CheckLoop(c))
       /\ UNCHANGED <<config, holdStore, orderStore, now, budget, cronDone>>

\* calculatePricing, the payment intent when a provider is configured, then
\* Order.create: PENDING with a provider, SUCCEEDED in mock mode, where
\* finalizeOrder(order._id) follows in the same request
CheckoutCreateOrder(p) ==
    LET c == calls[p]
        id == numOrders + 1
    IN /\ c.pc = "createOrder"
       /\ orders' = [orders EXCEPT ![id] =
               [exists |-> TRUE, seatIds |-> c.seatIds, ticketIds |-> {},
                sessionId |-> c.sessionId,
                paymentStatus |-> IF stripe THEN PENDING ELSE SUCCEEDED]]
       /\ numOrders' = id
       /\ Step(p, IF stripe THEN Done([c EXCEPT !.orderId = id], "ok")
                  ELSE [c EXCEPT !.pc = "finFind", !.orderId = id])
       /\ UNCHANGED <<config, holdStore, now, seats, tickets, soldCount, budget, cronDone>>

createCheckoutIntent(p) ==
    \/ \E sess \in env.sessions, req \in SUBSET DOMAIN seats : CheckoutCall(p, sess, req)
    \/ CheckoutFindHold(p)
    \/ CheckoutRelease(p)
    \/ CheckoutCreateOrder(p)

\* -------------------------------------------------------- finalizeOrder
\* Order.findById(orderId): an order that is already SUCCEEDED is returned as it is
FoundOrder(c, o) ==
    IF orders[o].paymentStatus = SUCCEEDED THEN Done([c EXCEPT !.orderId = o], "ok")
    ELSE [c EXCEPT !.pc = "finUpdate", !.orderId = o, !.seatIds = orders[o].seatIds,
                   !.todo = orders[o].seatIds]

\* POST /orders/:id/finalize for an order that exists
FinalizeCall(p, o) ==
    /\ CanStart(p)
    /\ Issue
    /\ o <= numOrders
    /\ Step(p, FoundOrder([Idle EXCEPT !.op = "finalizeOrder"], o))
    /\ UNCHANGED <<config, holdStore, orderStore, now, seats, cronDone>>

\* finalizeOrder called from createCheckoutIntent (mock mode) or from the webhook
FinalizeFind(p) ==
    LET c == calls[p]
    IN /\ c.pc = "finFind"
       /\ Step(p, FoundOrder(c, c.orderId))
       /\ UNCHANGED <<config, holdStore, orderStore, now, seats, budget, cronDone>>

\* the update of finalizeOrder without its status condition
NotSoldAnyStatus(S) == S

\* the rows of updateMany({seatId: {$in: order.seatIds}, status: {$ne: SOLD}})
NotSold(S) == {s \in S : seats[s].status # SOLD}

\* finalizeOrder's update without the comparison of modifiedCount
FinalizeUpdateNoCount(p) ==
    LET c == calls[p]
        M == NotSold(c.todo)
    IN /\ c.pc = "finUpdate"
       /\ seats' = SetSold(M, c.orderId)
       /\ Step(p, [c EXCEPT !.pc = "finTickets", !.flipped = c.flipped \cup M,
                            !.todo = {}])
       /\ UNCHANGED <<config, holdStore, orderStore, now, budget, cronDone>>

\* updateMany(-> SOLD, orderId) on the rows it has not yet visited; 409 when
\* modifiedCount is not the number of seats
FinalizeUpdate(p) ==
    LET c == calls[p]
        M == NotSold(c.todo)
        d == [c EXCEPT !.flipped = c.flipped \cup M, !.todo = {}]
    IN /\ c.pc = "finUpdate"
       /\ seats' = SetSold(M, c.orderId)
       /\ Step(p, IF Cardinality(d.flipped) # Cardinality(c.seatIds) THEN Done(d, "409")
                  ELSE [d EXCEPT !.pc = "finTickets"])
       /\ UNCHANGED <<config, holdStore, orderStore, now, budget, cronDone>>

\* The same updateMany writes its first row and yields: the operation is atomic
\* per document only, so another request can write before it visits the next row.
FinalizeUpdateRow(p) ==
    LET c == calls[p]
        s == First(c.todo)
        M == NotSold({s})
    IN /\ c.pc = "finUpdate"
       /\ Cardinality(c.todo) > 1
       /\ seats' = SetSold(M, c.orderId)
       /\ Step(p, [c EXCEPT !.flipped = c.flipped \cup M, !.todo = c.todo \ {s}])
       /\ UNCHANGED <<config, holdStore, orderStore, now, budget, cronDone>>

\* the ticket rows of a set of seats, in seat order
RECURSIVE TicketRows(_, _)
TicketRows(o, S) ==
    IF S = {} THEN <<>>
    ELSE <<[orderId |-> o, seatId |-> First(S), status |-> VALID]>> \o TicketRows(o, S \ {First(S)})

\* Event.findById(order.eventId), the QR codes, Ticket.create(ticketData)
FinalizeTickets(p) ==
    LET c == calls[p]
        n == Cardinality(c.seatIds)
    IN /\ c.pc = "finTickets"
       /\ tickets' = tickets \o TicketRows(c.orderId, c.seatIds)
       /\ Step(p, [c EXCEPT !.pc = "finSave", !.soldCount = soldCount,
                            !.ticketIds = (Len(tickets) + 1)..(Len(tickets) + n)])
       /\ UNCHANGED <<config, holdStore, orders, numOrders, soldCount, now, seats,
                      budget, cronDone>>

\* order.paymentStatus = SUCCEEDED; order.ticketIds = ...; order.save()
FinalizeSave(p) ==
    LET c == calls[p]
    IN /\ c.pc = "finSave"
       /\ orders' = [orders EXCEPT ![c.orderId].paymentStatus = SUCCEEDED,
                                   ![c.orderId].ticketIds = c.ticketIds]
       /\ Step(p, [c EXCEPT !.pc = "finEventSave"])
       /\ UNCHANGED <<config, holdStore, numOrders, tickets, soldCount, now, seats,
                      budget, cronDone>>

\* event.soldCount += order.seatIds.length; event.save()
FinalizeEventSave(p) ==
    LET c == calls[p]
    IN /\ c.pc = "finEventSave"
       /\ soldCount' = c.soldCount + Cardinality(c.seatIds)
       /\ Step(p, Done([c EXCEPT !.soldCount = 0], "ok"))
       /\ UNCHANGED <<config, holdStore, orders, numOrders, tickets, now, seats,
                      budget, cronDone>>

finalizeOrder(p) ==
    \/ \E o \in OrderIds : FinalizeCall(p, o)
    \/ FinalizeFind(p)
    \/ FinalizeUpdate(p)
    \/ FinalizeTickets(p)
    \/ FinalizeSave(p)
    \/ FinalizeEventSave(p)

\* -------------------------------------------------- handleStripeWebhook
\* a failure delivery that also gives the seats of the order back
markOrderFailedReleasing(p, o) ==
    /\ CanStart(p)
    /\ Issue
    /\ stripe
    /\ o <= numOrders
    /\ orders' = [orders EXCEPT ![o].paymentStatus = FAILED]
    /\ seats' = SetAvailable(Matching(orders[o].seatIds, HELD))
    /\ Step(p, Done([Idle EXCEPT !.op = "markOrderFailed", !.orderId = o], "ok"))
    /\ UNCHANGED <<config, holdStore, numOrders, tickets, soldCount, now, cronDone>>

\* payment_intent.payment_failed:
\* Order.updateOne({paymentIntentId}, {paymentStatus: FAILED})
markOrderFailed(p, o) ==
    /\ CanStart(p)
    /\ Issue
    /\ stripe
    /\ o <= numOrders
    /\ orders' = [orders EXCEPT ![o].paymentStatus = FAILED]
    /\ Step(p, Done([Idle EXCEPT !.op = "markOrderFailed", !.orderId = o], "ok"))
    /\ UNCHANGED <<config, holdStore, numOrders, tickets, soldCount, now, seats, cronDone>>

\* payment_intent.succeeded: Order.findOne({paymentIntentId}), then finalizeOrder
PaymentSucceeded(p, o) ==
    /\ CanStart(p)
    /\ Issue
    /\ stripe
    /\ o <= numOrders
    /\ Step(p, [Idle EXCEPT !.op = "handleStripeWebhook", !.pc = "finFind", !.orderId = o])
    /\ UNCHANGED <<config, holdStore, orderStore, now, seats, cronDone>>

handleStripeWebhook(p) ==
    \/ \E o \in OrderIds : markOrderFailed(p, o)
    \/ \E o \in OrderIds : PaymentSucceeded(p, o)

\* ------------------------------------------------------ event set-up
\* uploadSvgSeatMap: the seats parsed from the SVG replace the seat index of
\* the venue; 400 when the SVG has no seat
uploadSvgSeatMap(S) ==
    /\ S # {}
    /\ venue' = [seatIndex |-> S, totalSeats |-> Cardinality(S)]
    /\ ret' = NoRet
    /\ UNCHANGED <<stripe, env, event, cache, quote, holdStore, orderStore, now, seats, calls,
                   budget, cronDone>>

\* createEvent: 400 when the venue has no seat map; the event is a DRAFT with
\* totalCapacity: venue.totalSeats
createEvent ==
    /\ ~event.exists
    /\ venue.totalSeats # 0
    /\ event' = [exists |-> TRUE, status |-> DRAFT, totalCapacity |-> venue.totalSeats]
    /\ ret' = NoRet
    /\ UNCHANGED <<stripe, env, venue, cache, quote, holdStore, orderStore, now, seats, calls,
                   budget, cronDone>>

\* publishEvent: only a DRAFT; EventSeatState.insertMany of one AVAILABLE row
\* per seat of venue.seatIndex, then event.status = PUBLISHED
publishEvent ==
    /\ event.exists
    /\ event.status = DRAFT
    /\ seats' = [s \in venue.seatIndex |->
                    [SeatRow(AVAILABLE, Null, Null) EXCEPT !.lastUpdated = Stamp]]
    /\ event' = [event EXCEPT !.status = PUBLISHED]
    /\ ret' = NoRet
    /\ UNCHANGED <<stripe, env, venue, cache, quote, holdStore, orderStore, now, calls, budget,
                   cronDone>>

\* the seat service: holds, releases, the cleanup job, the TTL index
NextSeat ==
    \/ Tick
    \/ \E h \in HoldIds : TTLIndexDelete(h)
    \/ \E p \in Procs : holdSeats(p)
    \/ \E p \in Procs : releaseSeats(p)
    \/ \E p \in Procs : cleanupExpiredHolds(p)

\* the order service
NextOrder ==
    \/ \E p \in Procs : createCheckoutIntent(p)
    \/ \E p \in Procs : finalizeOrder(p)
    \/ \E p \in Procs : handleStripeWebhook(p)

\* the Redis commands of the seat service
NextRedis ==
    \/ \E p \in Procs : HoldSeatsSetEx(p)
    \/ \E p \in Procs : HoldSeatsExtendSetEx(p)
    \/ \E p \in Procs : ReleaseSeatsDel(p)
    \/ \E p \in Procs : CleanupDel(p)

\* the rollback of holdSeats, which only a racing request brings about
NextRace == \E p \in Procs : HoldSeatsRollback(p)

\* the updateMany of finalizeOrder overtaken between two rows
NextOrderRace == \E p \in Procs : FinalizeUpdateRow(p)

\* concurrent requests of two sessions to the seat service
Spec == Init /\ [][NextSeat \/ NextRace]_vars

\* concurrent requests of one session to both services
SpecAll == InitAll /\ [][NextSeat \/ NextRace \/ NextOrder \/ NextOrderRace]_vars

\* requests served one at a time, both services, provider mode and mock mode
SpecSeq == InitSeq /\ [][NextSeat \/ NextOrder]_vars

\* One process serves the requests one after the other; the Redis commands are
\* followed, and each of them may fail.
InitRedis ==
    /\ Fresh
    /\ stripe = TRUE
    /\ env = [Env({"p1"}, Sessions, MaxTime, FALSE) EXCEPT !.redis = TRUE]
    /\ budget = MaxRedisCalls

SpecRedis == InitRedis /\ [][NextSeat \/ NextOrder \/ NextRedis]_vars

\* One process serves the requests of two sessions and the cleanup job on
\* its schedule; the lastUpdated of the seat rows is followed.
InitJob ==
    /\ Fresh
    /\ stripe = TRUE
    /\ env = [Env({"p1"}, Sessions, MaxJobTime, TRUE) EXCEPT !.stamps = TRUE]
    /\ budget = MaxJobCalls

\* Two processes serve the order service for seats that nobody holds: checkouts
\* of one session, finalize requests and webhook deliveries, which may overlap.
InitOrders ==
    /\ Fresh
    /\ stripe = TRUE
    /\ env = Env(Procs, {"sess1"}, 0, FALSE)
    /\ budget = MaxOrderCalls

NextOrders ==
    \/ \E p \in Procs, req \in SUBSET DOMAIN seats : CheckoutCall(p, "sess1", req)
    \/ \E p \in Procs : CheckoutCreateOrder(p)
    \/ \E p \in Procs : finalizeOrder(p)
    \/ \E p \in Procs : handleStripeWebhook(p)
    \/ \E p \in Procs : FinalizeUpdateRow(p)

SpecOrders == InitOrders /\ [][NextOrders]_vars

\* One process serves the requests one after the other; the two sessions are
\* both guests, or both of one user, or of two users.
InitUsers ==
    /\ Fresh
    /\ stripe = TRUE
    /\ \E u \in {[s \in Sessions |-> Guest], [s \in Sessions |-> "user1"],
                 [s \in Sessions |-> IF s = "sess1" THEN "user1" ELSE "user2"]} :
         env = [Env({"p1"}, Sessions, MaxTime, FALSE) EXCEPT !.users = u]
    /\ budget = MaxUserCalls

SpecUsers == InitUsers /\ [][NextSeat \/ NextOrder]_vars

\* ------------------------------------------------------------- scanner
\* validateAndMarkTicket is called with a ticketCode (tickets are numbered in
\* creation order; a code beyond them is of no ticket), the eventId of the
\* scan and the staffId of the scanner, if any: 401 without staffId; then
\* Ticket.findOne({ticketCode}): not_found, wrong_event, or the ticket
\* document is kept.  The ScanLog rows of logScan are not followed.
ScanFindTicket(p, code, eventId, staff) ==
    /\ CanStart(p)
    /\ Issue
    /\ LET c == [Idle EXCEPT !.op = "validateAndMarkTicket", !.ticket = code]
       IN Step(p, IF ~staff THEN Done(c, "401")
                  ELSE IF code \notin DOMAIN tickets THEN Done(c, "not_found")
                  ELSE IF eventId # TheEvent THEN Done(c, "wrong_event")
                  ELSE [c EXCEPT !.pc = "scanOrder", !.ticketDoc = tickets[code]])
    /\ UNCHANGED <<config, holdStore, orderStore, now, seats, cronDone>>

\* Order.findById(ticket.orderId), then the tests of the order and of the
\* status of the ticket document that was read
ScanFindOrder(p) ==
    LET c == calls[p]
        order == orders[c.ticketDoc.orderId]
    IN /\ c.pc = "scanOrder"
       /\ Step(p, IF ~order.exists \/ order.paymentStatus # SUCCEEDED
                  THEN Done(c, "payment_pending")
                  ELSE IF c.ticketDoc.status = USED THEN Done(c, "already_used")
                  ELSE IF c.ticketDoc.status = CANCELLED THEN Done(c, "cancelled")
                  ELSE IF c.ticketDoc.status # VALID THEN Done(c, "payment_pending")
                  ELSE [c EXCEPT !.pc = "scanSave"])
       /\ UNCHANGED <<config, holdStore, orderStore, now, seats, budget, cronDone>>

\* ticket.status = USED; await ticket.save(); the scan is valid
ScanSave(p) ==
    LET c == calls[p]
    IN /\ c.pc = "scanSave"
       /\ tickets' = [tickets EXCEPT ![c.ticket].status = USED]
       /\ Step(p, Done(c, "valid"))
       /\ UNCHANGED <<config, holdStore, orders, numOrders, soldCount, now, seats, budget,
                      cronDone>>

validateAndMarkTicket(p) ==
    \/ \E code \in TicketCodes, eventId \in EventIds, staff \in BOOLEAN :
           ScanFindTicket(p, code, eventId, staff)
    \/ ScanFindOrder(p)
    \/ ScanSave(p)

\* Two processes serve the checkout and the payment events of one session and
\* the scans of its tickets.
InitScan ==
    /\ Fresh
    /\ stripe = TRUE
    /\ env = Env(Procs, {"sess1"}, 0, FALSE)
    /\ budget = MaxScanCalls

SpecScan == InitScan /\ [][NextOrders \/ \E p \in Procs : validateAndMarkTicket(p)]_vars

\* ------------------------------------------------------------- pricing
\* seatId.split('-') of the seat ids of both forms
SeatTokens == {<<"A", "R1", "S1">>, <<"B", "R1", "S1">>,
               <<"SEC", "A", "R1", "S1">>, <<"SEC", "B", "R1", "S1">>}

\* the keys of Event.pricingZones, and the zone stored under each
Sections == {"A", "B", "SEC"}

Zone(k) == [name |-> k, price |-> IF k = "A" THEN 10 ELSE IF k = "B" THEN 20 ELSE 5]

\* calculatePricing: const [part1, part2] = seatId.split('-');
\* section = part1 === 'SEC' ? part2 : part1
PricingSection(seatId) == IF seatId[1] = "SEC" THEN seatId[2] ELSE seatId[1]

\* finalizeOrder: const [section] = seatId.split('-')
TicketSection(seatId) == seatId[1]

RECURSIVE Total(_, _)
Total(f, S) ==
    IF S = {} THEN 0
    ELSE LET s == CHOOSE x \in S : TRUE IN f[s] + Total(f, S \ {s})

\* calculatePricing(eventId, seatIds): 400 when a seat's section has no zone,
\* else perSeat and subtotal
calculatePricing ==
    /\ quote.pc = "order"
    /\ quote' = IF \E s \in quote.seatIds : PricingSection(s) \notin DOMAIN quote.pricingZones
                THEN [quote EXCEPT !.pc = "400"]
                ELSE LET perSeat == [s \in quote.seatIds |->
                                        quote.pricingZones[PricingSection(s)].price]
                     IN [quote EXCEPT !.pc = "priced", !.perSeat = perSeat,
                                      !.subtotal = Total(perSeat, quote.seatIds)]
    /\ UNCHANGED <<stripe, env, venue, event, cache, holdStore, orderStore, now, seats,
                   calls, budget, cronDone, ret>>

\* finalizeOrder, the ticket data of the order's seats:
\* ticketType: zone?.name || 'General', price: zone?.price ?? 0
FinalizeTicketData ==
    /\ quote.pc = "priced"
    /\ quote' = [quote EXCEPT !.pc = "ticketed", !.ticketData =
            [s \in quote.seatIds |->
                IF TicketSection(s) \in DOMAIN quote.pricingZones
                THEN [ticketType |-> quote.pricingZones[TicketSection(s)].name,
                      price |-> quote.pricingZones[TicketSection(s)].price]
                ELSE [ticketType |-> "General", price |-> 0]]]
    /\ UNCHANGED <<stripe, env, venue, event, cache, holdStore, orderStore, now, seats,
                   calls, budget, cronDone, ret>>

\* An event with some pricing zones (createEvent refuses an empty map) and an
\* order for some of its seats.
InitPricing ==
    /\ now = 0
    /\ holds = [h \in HoldIds |-> NoHoldRow]
    /\ numHolds = 0
    /\ orders = [o \in OrderIds |-> NoOrderRow]
    /\ numOrders = 0
    /\ tickets = <<>>
    /\ soldCount = 0
    /\ calls = [p \in Procs |-> Idle]
    /\ ret = NoRet
    /\ cronDone = FALSE
    /\ cache = [h \in HoldIds |-> NoEntry]
    /\ venue = [seatIndex |-> Seats, totalSeats |-> Cardinality(Seats)]
    /\ event = [exists |-> TRUE, status |-> PUBLISHED, totalCapacity |-> Cardinality(Seats)]
    /\ seats = [s \in Seats |-> SeatRow(AVAILABLE, Null, Null)]
    /\ stripe = TRUE
    /\ env = Env({"p1"}, {"sess1"}, 0, FALSE)
    /\ budget = 0
    /\ \E K \in SUBSET Sections \ {{}}, S \in SUBSET SeatTokens \ {{}} :
         quote = [NoQuote EXCEPT !.pc = "order", !.pricingZones = [k \in K |-> Zone(k)],
                                 !.seatIds = S]

SpecPricing == InitPricing /\ [][calculatePricing \/ FinalizeTicketData]_vars

\* holds, the TTL index and the cleanup job on its schedule
NextTimed ==
    \/ Tick
    \/ \E h \in HoldIds : TTLIndexDelete(h)
    \/ \E p \in Procs : holdSeats(p)
    \/ \E p \in Procs : cleanupExpiredHolds(p)
    \/ \E p \in Procs : CleanupNone(p)

SpecTimed == InitTimed /\ [][NextTimed \/ NextRace]_vars

\* the seat service and the job, requests served one after the other
SpecJob == InitJob /\ [][NextTimed \/ \E p \in Procs : releaseSeats(p)]_vars

\* A venue without seat map and no event yet; one process then serves the
\* requests of one session for the event that gets published.
InitPublish ==
    /\ NoRequests
    /\ venue = NoVenue
    /\ event = NoEvent
    /\ seats = [s \in {} |-> SeatRow(AVAILABLE, Null, Null)]
    /\ stripe = TRUE
    /\ env = Env({"p1"}, {"sess1"}, MaxTime, FALSE)
    /\ budget = MaxPublishCalls

NextPublish ==
    \/ \E S \in SUBSET Seats : uploadSvgSeatMap(S)
    \/ createEvent
    \/ publishEvent

\* A venue without seat map and no event yet; one process then serves any
\* holdSeats request of one session, the valid ones and the others, under a
\* small maxSeatsPerHold; the Redis commands are followed.
InitInput ==
    /\ NoRequests
    /\ venue = NoVenue
    /\ event = NoEvent
    /\ seats = [s \in {} |-> SeatRow(AVAILABLE, Null, Null)]
    /\ stripe = TRUE
    /\ env = [Env({"p1"}, {"sess1"}, MaxTime, FALSE)
                 EXCEPT !.redis = TRUE, !.maxSeatsPerHold = SmallHoldCap]
    /\ budget = MaxInputCalls

NextInput == \E p \in Procs, req \in SUBSET Seats : HoldSeatsOther(p, "sess1", req)

SpecInput == InitInput /\ [][NextPublish \/ NextSeat \/ NextRedis \/ NextInput]_vars

\* the set-up of the event, then requests to the seat service
SpecPublish == InitPublish /\ [][NextPublish \/ NextSeat]_vars

\* The race for one seat: each of two sessions calls holdSeats once, for the
\* same single seat of the freshly published event.
InitRace ==
    /\ Fresh
    /\ stripe = TRUE
    /\ env = Env(Procs, Sessions, MaxTime, FALSE)
    /\ budget = MaxRaceCalls

\* the session has called holdSeats: its call is running or has created a row
Asked(sess) ==
    \/ \E p \in Procs : calls[p].sessionId = sess
    \/ \E h \in 1..numHolds : holds[h].sessionId = sess

\* the seats that a call of the race has asked for
Raced ==
    UNION {calls[p].seatIds : p \in Procs} \cup UNION {holds[h].seatIds : h \in 1..numHolds}

RaceCall(p) ==
    \E sess \in env.sessions, s \in Seats :
        /\ ~Asked(sess)
        /\ Raced \subseteq {s}
        /\ HoldSeatsCall(p, sess, {s})

NextRaceSeat ==
    \/ Tick
    \/ \E p \in Procs : RaceCall(p)
    \/ \E p \in Procs : HoldSeatsFindSeats(p)
    \/ \E p \in Procs : HoldSeatsFindHoldDocs(p)
    \/ \E p \in Procs : HoldSeatsReleaseStale(p)
    \/ \E p \in Procs : HoldSeatsCreate(p)
    \/ \E p \in Procs : HoldSeatsUpdate(p)
    \/ \E p \in Procs : HoldSeatsRollback(p)

SpecRace == InitRace /\ [][NextRaceSeat]_vars

\* a request in progress takes its next step
HoldSeatsStep(p) ==
    \/ HoldSeatsFindSeats(p)
    \/ HoldSeatsFindHoldDocs(p)
    \/ HoldSeatsReleaseStale(p)
    \/ HoldSeatsExtendUpdate(p)
    \/ HoldSeatsExtendSave(p)
    \/ HoldSeatsCreate(p)
    \/ HoldSeatsUpdate(p)
    \/ HoldSeatsRollback(p)

\* The same runs under the scheduling of the deployment: the clock advances,
\* the cleanup job fires in every period and runs to its end, and a request
\* in progress runs to its response.  Nothing is assumed of the clients or of
\* the TTL monitor.
SpecTimedFair ==
    /\ SpecTimed
    /\ WF_vars(Tick)
    /\ \A p \in Procs : WF_vars(cleanupExpiredHolds(p) \/ CleanupNone(p))
    /\ \A p \in Procs : WF_vars(HoldSeatsStep(p))

\* ---------------------------------------------------------------- claims
\* the requests that run finalizeOrder for an order of a provider payment
FinalizeOps == {"finalizeOrder", "handleStripeWebhook"}

SoldUnder(o) == {s \in DOMAIN seats : seats[s].status = SOLD /\ seats[s].orderId = o}

TicketsOf(o) == {i \in DOMAIN tickets : tickets[i].orderId = o}

\* C1: no double-sell: in every reachable state no seat is in the seatIds of two
\* SUCCEEDED orders (of the orders that contain a seat, at most one ends SUCCEEDED).
C1_NoDoubleSell ==
    \A o1, o2 \in OrderIds :
        (/\ o1 # o2
         /\ orders[o1].exists /\ orders[o1].paymentStatus = SUCCEEDED
         /\ orders[o2].exists /\ orders[o2].paymentStatus = SUCCEEDED)
        => orders[o1].seatIds \cap orders[o2].seatIds = {}

\* C2: holdSeats is all-or-nothing: when a call returns success every requested
\* seat is HELD under the returned hold; when it fails, the hold row it created
\* is gone and no seat it flipped is still HELD under its hold id.
C2_HoldAllOrNothing ==
    ret.op = "holdSeats" =>
        IF ret.result = "ok"
        THEN \A s \in ret.seatIds : seats[s].status = HELD /\ seats[s].holdId = ret.holdId
        ELSE /\ ret.created # Null => ~holds[ret.created].exists
             /\ \A s \in ret.flipped :
                    ~(seats[s].status = HELD /\ seats[s].holdId = ret.holdId)

\* C3: hold exclusivity: in every reachable state two distinct hold rows that
\* exist and have not expired have disjoint seatIds.
C3_HoldExclusivity ==
    \A h1, h2 \in HoldIds :
        (/\ h1 # h2
         /\ holds[h1].exists /\ ~Expired(holds[h1])
         /\ holds[h2].exists /\ ~Expired(holds[h2]))
        => holds[h1].seatIds \cap holds[h2].seatIds = {}

\* C4: TTL reclamation bound: with the cleanup job run in every period, a hold
\* whose expiresAt is more than two periods in the past does not exist and no
\* seat is HELD under its id, the TTL index deleting rows or not.
C4_ReclamationBound ==
    \A h \in HoldIds :
        (h <= numHolds /\ holds[h].expiresAt < now - 2 * WorkerPeriod)
        => ~holds[h].exists /\ HeldUnder(h) = {}

\* C5: finalizeOrder is atomic across the seats of the order: when a call
\* returns, with success or with an error, either every seat of the order is
\* SOLD under the order and the order is SUCCEEDED, or no seat is SOLD under
\* the order and the order is PENDING.  (Stated for provider payments, and for
\* orders that the payment-failed webhook has not left FAILED.)
C5_FinalizeAtomic ==
    (stripe /\ ret.op \in FinalizeOps /\ orders[ret.orderId].paymentStatus # FAILED) =>
        LET o == ret.orderId
        IN \/ /\ SoldUnder(o) = orders[o].seatIds
              /\ orders[o].paymentStatus = SUCCEEDED
           \/ /\ SoldUnder(o) = {}
              /\ orders[o].paymentStatus = PENDING

\* C6: SUCCEEDED and FAILED are terminal: no step takes a SUCCEEDED order or a
\* FAILED order to another paymentStatus.
C6_StatusTerminal ==
    [][\A o \in OrderIds :
          /\ orders[o].paymentStatus = SUCCEEDED => orders'[o].paymentStatus = SUCCEEDED
          /\ orders[o].paymentStatus = FAILED => orders'[o].paymentStatus = FAILED]_vars

\* C7: in every reachable state, with a provider or in mock mode, every seat of
\* a SUCCEEDED order is SOLD under that order.
C7_SucceededMeansSold ==
    \A o \in OrderIds :
        (orders[o].exists /\ orders[o].paymentStatus = SUCCEEDED)
        => SoldUnder(o) = orders[o].seatIds

\* C8: in mock mode a createCheckoutIntent that succeeds for seats held by the
\* caller returns a SUCCEEDED order with one ticket per seat, every seat SOLD,
\* and soldCount raised by the number of seats.  createCheckoutIntent puts no
\* seat on hold, so the seats the caller holds when it returns were held by the
\* caller when it was called; soldCount starts at 0 and is only ever raised, so
\* after a raise by n it is at least n.
C8_MockFinalizes ==
    LET o == ret.orderId
        S == ret.seatIds
        heldByCaller(s) == /\ seats[s].holdId # Null
                           /\ holds[seats[s].holdId].exists
                           /\ holds[seats[s].holdId].sessionId = ret.sessionId
    IN (/\ ~stripe
        /\ ret.op = "createCheckoutIntent" /\ ret.result = "ok"
        /\ \A s \in S : heldByCaller(s))
       => /\ orders[o].paymentStatus = SUCCEEDED
          /\ Cardinality(TicketsOf(o)) = Cardinality(S)
          /\ \A s \in S : \E i \in TicketsOf(o) : tickets[i].seatId = s
          /\ \A s \in S : seats[s].status = SOLD
          /\ soldCount >= Cardinality(S)

C10_SoldOnlyIfHeld ==
    [][\A s \in Seats :
          (seats[s].status # SOLD /\ seats'[s].status = SOLD) => seats[s].status = HELD]_vars

\* the hold a seat is HELD under, when that hold exists and has not expired
LiveHolder(s) ==
    {h \in HoldIds : /\ seats[s].status = HELD /\ seats[s].holdId = h
                     /\ holds[h].exists /\ ~Expired(holds[h])}

\* C11: finalizeOrder never sells a seat that is HELD under a live hold of a
\* session other than the order's: no step takes such a seat to SOLD.
C11_NoSaleOfOthersHold ==
    [][\A s \in Seats : \A h \in LiveHolder(s) :
          seats'[s].status = SOLD
          => orders[seats'[s].orderId].sessionId = holds[h].sessionId]_vars

Settled(o) == \A p \in Procs : calls[p].op = "idle" \/ calls[p].orderId # o

\* C13: webhook idempotence: when a payment_intent.succeeded delivery returns,
\* no other request for its order is running and the seats of the order have
\* been sold under it by this delivery or by one before it or beside it, the
\* order (unless a failure event marked it FAILED) is SUCCEEDED with exactly
\* one ticket per seat, its ticketIds are those tickets, and soldCount was
\* raised once (with a single order, soldCount is the number of its seats).
C13_WebhookIdempotent ==
    LET o == ret.orderId
    IN (/\ ret.op = "handleStripeWebhook" /\ Settled(o)
        /\ orders[o].paymentStatus # FAILED
        /\ SoldUnder(o) = orders[o].seatIds)
       => /\ orders[o].paymentStatus = SUCCEEDED
          /\ \A s \in orders[o].seatIds :
                 Cardinality({i \in TicketsOf(o) : tickets[i].seatId = s}) = 1
          /\ orders[o].ticketIds = TicketsOf(o)
          /\ numOrders = 1 => soldCount = Cardinality(orders[o].seatIds)

\* the SeatHold rows that exist and have not expired
LiveHolds == {h \in HoldIds : holds[h].exists /\ ~Expired(holds[h])}

\* no request is running
Quiet == \A p \in Procs : calls[p].op = "idle"

\* C14 (I5): after any sequence of completed requests, every seatId listed in a
\* live hold has a seat row that is HELD with holdId equal to that hold.
C14_LiveHoldSeatsHeld ==
    Quiet => \A h \in LiveHolds : \A s \in holds[h].seatIds :
                 seats[s].status = HELD /\ seats[s].holdId = h

\* C15 (I6): at most one live hold per (eventId, sessionId), also after the
\* same session has issued two holdSeats calls concurrently: once the calls
\* have returned, no two live hold rows carry the same sessionId.
C15_OneLiveHoldPerSession ==
    Quiet => \A h1, h2 \in LiveHolds :
                 holds[h1].sessionId = holds[h2].sessionId => h1 = h2

\* C16: the reference invariant of a seat row: holdId is set iff the seat is
\* HELD, and orderId is set iff the seat is SOLD.
C16_SeatReferences ==
    \A s \in Seats : /\ seats[s].holdId # Null <=> seats[s].status = HELD
                     /\ seats[s].orderId # Null <=> seats[s].status = SOLD

\* C17: no starvation by unpaid reservations: with the cleanup job running
\* fairly and no further client requests, a seat that is HELD (early enough for
\* its hold to expire before the end of the run) eventually becomes AVAILABLE,
\* also when its hold row no longer exists.
C17_NoStarvation ==
    \A s \in Seats :
        (seats[s].status = HELD /\ budget = 0 /\ now + 2 <= MaxTimedTime)
        ~> (seats[s].status = AVAILABLE)

\* The updates of the seat_availability_update that the controller emits after
\* the service call of a request returned r: the holdSeats controller
\* broadcasts HELD for every requested seatId; the releaseSeats controller,
\* the finalize endpoint and the webhook emit nothing, and neither does a
\* request whose service call threw.
Broadcast(r) ==
    IF r.op = "holdSeats" /\ r.result = "ok"
    THEN {[seatId |-> s, status |-> HELD] : s \in r.seatIds}
    ELSE {}

\* The transitions the claim names that a request with response r committed:
\* AVAILABLE -> HELD by holdSeats, HELD -> AVAILABLE by releaseSeats, and
\* HELD -> SOLD by finalizeOrder (a seat sold while HELD keeps its holdId).
Transitions(r) ==
    IF r.op = "holdSeats" THEN {[seatId |-> s, status |-> HELD] : s \in r.flipped}
    ELSE IF r.op = "releaseSeats"
    THEN {[seatId |-> s, status |-> AVAILABLE] : s \in r.flipped}
    ELSE IF r.op \in FinalizeOps
    THEN {[seatId |-> s, status |-> SOLD] : s \in {u \in r.flipped : seats[u].holdId # Null}}
    ELSE {}

\* C18: every seat status transition produces exactly one broadcast: when a
\* holdSeats, releaseSeats or finalizeOrder request returns with success, the
\* seat_availability_update emitted for it carries exactly the seats whose
\* status the request changed, each with its new status.
C18_BroadcastPerTransition ==
    ret.result = "ok" => Broadcast(ret) = Transitions(ret)

\* the seats in a status, counted as getEventAnalytics counts them
Count(st) == Cardinality({s \in DOMAIN seats : seats[s].status = st})

\* C19: conservation: for a published event the AVAILABLE, HELD and SOLD seat
\* rows together are as many as the event's totalCapacity.
C19_Conservation ==
    (event.exists /\ event.status = PUBLISHED)
    => Count(AVAILABLE) + Count(HELD) + Count(SOLD) = event.totalCapacity

\* no hold row of the run has expired
NoneExpired == \A h \in 1..numHolds : ~Expired(holds[h])

\* C20: two sessions race holdSeats for the same single AVAILABLE seat, and no
\* hold expires meanwhile.  Under every interleaving a call returns success
\* or 409; on success the seat is HELD under the hold the call returns; a call
\* that fails leaves no hold row of its own; and once both calls have returned
\* exactly one hold row exists and the seat is HELD under it (so exactly one
\* call succeeded: two successes would leave two rows, two failures none).
C20_RaceOneWinner ==
    NoneExpired =>
      /\ ret.op = "holdSeats" =>
           /\ ret.result \in {"ok", "409"}
           /\ ret.result = "ok" =>
                /\ holds[ret.holdId].exists
                /\ holds[ret.holdId].sessionId = ret.sessionId
                /\ \A s \in ret.seatIds :
                       seats[s].status = HELD /\ seats[s].holdId = ret.holdId
           /\ ret.result = "409" =>
                /\ ret.flipped = {}
                /\ \A h \in 1..numHolds :
                       holds[h].exists => holds[h].sessionId # ret.sessionId
      /\ (Quiet /\ \A sess \in Sessions : Asked(sess)) =>
           \E h \in 1..numHolds :
               /\ holds[h].exists
               /\ \A g \in 1..numHolds : holds[g].exists => g = h
               /\ \A s \in Raced : seats[s].status = HELD /\ seats[s].holdId = h
               /\ \A s \in Seats \ Raced : seats[s].status = AVAILABLE

\* C20's case: the two calls overlapped, each created its hold row, and the
\* one whose update found the seat taken has rolled its row back and failed.
C20_Witness ==
    /\ NoneExpired
    /\ Quiet /\ \A sess \in Sessions : Asked(sess)
    /\ ret.op = "holdSeats" /\ ret.result = "409" /\ ret.created # Null
    /\ numHolds = 2
    /\ Cardinality({h \in 1..numHolds : holds[h].exists}) = 1

\* the seats of S that are HELD under a live hold of a session other than sess
OthersLive(sess, S) ==
    {s \in S : \E h \in LiveHolder(s) : holds[h].sessionId # sess}

\* C21: requests served one after the other: a holdSeats request of a session
\* without a hold row that names a seat HELD under another session's live
\* hold never gets as far as creating a hold, and it returns 409 having
\* created no hold and having made no seat HELD.
C21_BlockedHoldFails ==
    /\ (/\ ret.op = "holdSeats" /\ ret.holdId = ret.created
        /\ OthersLive(ret.sessionId, ret.seatIds) # {})
       => ret.result = "409" /\ ret.created = Null /\ ret.flipped = {}
    /\ \A p \in Procs :
         (/\ calls[p].op = "holdSeats" /\ calls[p].holdId = calls[p].created
          /\ OthersLive(calls[p].sessionId, calls[p].seatIds) # {})
         => calls[p].pc \notin {"createHold", "holdUpdate", "rollbackDelete"}

\* C21's case: the request named a seat held by the other session and a seat
\* that is AVAILABLE, and has failed.
C21_Witness ==
    /\ ret.op = "holdSeats" /\ ret.result = "409" /\ ret.holdId = Null
    /\ OthersLive(ret.sessionId, ret.seatIds) # {}
    /\ \E s \in ret.seatIds : seats[s].status = AVAILABLE

\* C22: requests served one after the other: a holdSeats request that names a
\* SOLD seat returns 409 and has made no seat HELD, whether or not the session
\* has a hold.
C22_SoldSeatRejected ==
    (ret.op = "holdSeats" /\ \E s \in ret.seatIds : seats[s].status = SOLD)
    => /\ ret.result = "409"
       /\ ret.flipped = {}

C25_FinalizeConflict ==
    /\ [][(/\ ret'.op \in FinalizeOps /\ ret'.result = "409"
           /\ orders[ret'.orderId].paymentStatus = PENDING)
          => /\ ret'.flipped # ret'.seatIds
             /\ orders' = orders
             /\ orders'[ret'.orderId].paymentStatus = PENDING
             /\ tickets' = tickets
             /\ soldCount' = soldCount]_vars
    /\ [](\A p \in Procs :
            calls[p].pc \in {"finTickets", "finSave", "finEventSave"}
            => calls[p].flipped = calls[p].seatIds)

\* C25's case: a seat of the order was already SOLD under another order, and
\* the finalize of the order has failed.
C25_Witness ==
    /\ ret.op \in FinalizeOps /\ ret.result = "409"
    /\ orders[ret.orderId].paymentStatus = PENDING
    /\ TicketsOf(ret.orderId) = {}
    /\ \E s \in ret.seatIds : seats[s].status = SOLD /\ seats[s].orderId # ret.orderId

\* C27: stale-hold reclamation is conditional on the orphaned hold: the
\* stale-seat update of holdSeats and the one of createCheckoutIntent leave as
\* it is a seat that is no longer under the hold the request observed and is
\* at that moment HELD under a live hold of another session.
C27_StaleReclaimConditional ==
    [][\A p \in Procs :
         (calls[p].pc \in {"releaseStale", "checkRelease"} /\ calls'[p] # calls[p])
         => \A s \in OthersLive(calls[p].sessionId, calls[p].seatIds) :
                seats[s].holdId # calls[p].snap[s].holdId => seats'[s] = seats[s]]_vars

\* C28: the cleanup job commutes with hold extension: a step of
\* cleanupExpiredHolds releases seats of a hold, or deletes a hold row, only
\* if the hold's expiresAt is in the past at that moment.
C28_CleanupOnlyExpired ==
    [][\A p \in Procs :
         (/\ calls[p].op = "cleanupExpiredHolds" /\ calls'[p] # calls[p]
          /\ calls[p].pc \in {"cleanupUpdate", "cleanupDelete"}
          /\ holds[calls[p].holdId].exists)
         => \/ Expired(holds[calls[p].holdId])
            \/ seats' = seats /\ holds' = holds]_vars

\* C24: requests served one after the other, Redis followed: a releaseSeats
\* request whose sessionId differs from the hold's returns 403 and changes no
\* hold row, no seat row and no cache entry; a releaseSeats request that
\* returns has made AVAILABLE, with holdId unset, the seats it found HELD under
\* the hold, no seat is left HELD under the hold, the hold row and the key
\* hold:{holdId} are gone; and the update of releaseSeats changes no SOLD row.
C24_ReleaseSeats ==
    [][/\ (/\ ret'.op = "releaseSeats" /\ holds[ret'.holdId].exists
           /\ holds[ret'.holdId].sessionId # ret'.sessionId)
          => /\ ret'.result = "403"
             /\ holds' = holds /\ seats' = seats /\ cache' = cache
       /\ (ret'.op = "releaseSeats" /\ ret'.result = "ok")
          => /\ \A s \in ret'.flipped :
                  seats'[s].status = AVAILABLE /\ seats'[s].holdId = Null
             /\ \A s \in DOMAIN seats' :
                  seats'[s].holdId = ret'.holdId => seats'[s].status = SOLD
             /\ ~holds'[ret'.holdId].exists
             /\ ~cache'[ret'.holdId].exists
       /\ \A p \in Procs :
            (calls[p].op = "releaseSeats" /\ calls'[p] # calls[p])
            => \A s \in DOMAIN seats : seats[s].status = SOLD => seats'[s] = seats[s]]_vars

\* C24's case: a release of a hold has returned; it made a HELD seat of the
\* hold AVAILABLE and left a seat of the hold that is SOLD as it was.
C24_Witness ==
    /\ ret.op = "releaseSeats" /\ ret.result = "ok"
    /\ ret.flipped # {}
    /\ \E s \in DOMAIN seats : seats[s].status = SOLD /\ seats[s].holdId = ret.holdId
    /\ \A s \in ret.flipped : seats[s].status = AVAILABLE

\* C26: a Redis command that fails changes nothing of what the call reports:
\* holdSeats and releaseSeats return as they do when the command succeeds, the
\* cleanup job counts the hold as cleaned; and holdSeats never fails while the
\* seats it moved are HELD under its hold.
C26_CacheNotAuthoritative ==
    [][/\ \A p \in Procs :
            (/\ calls[p].pc \in {"holdSetEx", "extendSetEx", "releaseDel"}
             /\ calls'[p] # calls[p])
            => ret'.result = "ok"
       /\ \A p \in Procs :
            (calls[p].pc = "cleanupDel" /\ calls'[p] # calls[p])
            => (IF ret'.op = "cleanupExpiredHolds" THEN ret'.cleanedCount
                ELSE calls'[p].cleanedCount) = calls[p].cleanedCount + 1
       /\ (ret'.op = "holdSeats" /\ ret'.result # "ok")
          => \A s \in ret'.flipped :
                 ~(seats'[s].status = HELD /\ seats'[s].holdId = ret'.holdId)]_vars

\* C30: Redis followed, its commands may fail: cleanupExpiredHolds never
\* throws and returns only after the last hold it selected; when it leaves a
\* hold, with or without an error, the hold row is deleted and none of its
\* seats is HELD under it; each hold left adds one either to cleanedCount or
\* to the errors logged, so the count returned is the number of selected holds
\* cleaned without error.
C30_CleanupContinues ==
    [][\A p \in Procs :
         (calls[p].op = "cleanupExpiredHolds" /\ calls'[p] # calls[p])
         => LET c == calls[p]
                d == IF calls'[p].op = "idle" THEN ret' ELSE calls'[p]
            IN /\ d.result \in {"none", "ok"}
               /\ d.pc = "done" => c.todo = {c.holdId}
               /\ c.pc = "cleanupDel"
                  => /\ ~holds'[c.holdId].exists
                     /\ \A s \in DOMAIN seats' :
                          ~(seats'[s].holdId = c.holdId /\ seats'[s].status = HELD)
                     /\ d.cleanedCount + d.errors = c.cleanedCount + c.errors + 1
                     /\ d.pc # "done" => d.todo = c.todo \ {c.holdId} /\ d.holdId \in d.todo
               /\ c.pc # "cleanupDel"
                  => d.cleanedCount = c.cleanedCount /\ d.errors = c.errors]_vars

\* C30's case: a run of the job selected two expired holds; the Redis command
\* for the first failed, the second was still cleaned: both rows are deleted,
\* every seat is AVAILABLE, the count returned is 1.
C30_Witness ==
    /\ ret.op = "cleanupExpiredHolds" /\ ret.result = "ok"
    /\ ret.cleanedCount = 1 /\ ret.errors = 1
    /\ numHolds = 2 /\ \A h \in 1..2 : ~holds[h].exists
    /\ cache[1].exists /\ ~cache[2].exists
    /\ ret.flipped # {} /\ \A s \in DOMAIN seats : seats[s].status = AVAILABLE

\* the window of the job's query: lastUpdated >= Date.now() - 60000
RecentWindow == 1

\* The seat list of the seat_availability_update the job emits after
\* cleanupExpiredHolds returned r: nothing when cleanedCount is 0, else the
\* AVAILABLE rows whose lastUpdated is within the last minute.
JobBroadcast(r) ==
    IF r.op = "cleanupExpiredHolds" /\ r.result = "ok" /\ r.cleanedCount > 0
    THEN {s \in DOMAIN seats : /\ seats[s].status = AVAILABLE
                               /\ seats[s].lastUpdated >= now - RecentWindow}
    ELSE {}

\* C29: when a run of the cleanup job that reclaimed at least one hold
\* returns, the seat list the job broadcasts is exactly the set of seats the
\* run moved from HELD to AVAILABLE.
C29_JobBroadcast ==
    (ret.op = "cleanupExpiredHolds" /\ ret.result = "ok" /\ ret.cleanedCount > 0)
    => JobBroadcast(ret) = ret.flipped

\* the orders that a finalizeOrder call has saved as SUCCEEDED with their tickets
Finalized == {o \in OrderIds : orders[o].exists /\ orders[o].ticketIds # {}}

RECURSIVE SeatsOf(_)
SeatsOf(O) ==
    IF O = {} THEN 0
    ELSE LET o == CHOOSE x \in O : TRUE
         IN Cardinality(orders[o].seatIds) + SeatsOf(O \ {o})

\* C31: soldCount accounting: when no request is running, Event.soldCount is
\* the sum of |seatIds| over the orders that finalizeOrder moved to SUCCEEDED,
\* and it is the number of SOLD seat rows.
C31_SoldCountAccounting ==
    Quiet => /\ soldCount = SeatsOf(Finalized)
             /\ soldCount = Count(SOLD)

\* C32: no hold row lists more seats than maxSeatsPerHold, also after
\* holdSeats calls of the session that extend its hold.
C32_HoldCap ==
    \A h \in HoldIds : holds[h].exists
        => Cardinality(holds[h].seatIds) <= env.maxSeatsPerHold

\* C37: requests served one after the other: a holdSeats request with no
\* seat or with more seats than maxSeatsPerHold returns 400, one for an event
\* that does not exist returns 404, one for an event that is not PUBLISHED
\* returns 400, each in the step that issues it and with every hold row, seat
\* row and cache entry as before; no holdSeats call goes on past these checks
\* with such a request.
C37_InvalidRequestRejected ==
    [][(Quiet /\ budget' < budget /\ (ret'.op = "holdSeats" \/ \E p \in Procs : calls'[p].op = "holdSeats"))
          => LET n == Cardinality(ret'.seatIds)
                 size == n = 0 \/ n > env.maxSeatsPerHold
                 bad == size \/ ~event.exists \/ event.status # PUBLISHED
             IN /\ \A p \in Procs : calls'[p].op = "holdSeats"
                       => /\ Cardinality(calls'[p].seatIds) \in 1..env.maxSeatsPerHold
                          /\ event.exists /\ event.status = PUBLISHED
                /\ (ret'.op = "holdSeats" /\ bad)
                   => /\ ret'.result = IF size THEN "400"
                                       ELSE IF ~event.exists THEN "404" ELSE "400"
                      /\ holds' = holds /\ numHolds' = numHolds
                      /\ seats' = seats /\ cache' = cache]_vars

\* C37's case: a request with one seat for the event while it is a DRAFT was
\* rejected with 400.
C37_Witness ==
    /\ ret.op = "holdSeats" /\ ret.result = "400"
    /\ Cardinality(ret.seatIds) = 1
    /\ event.exists /\ event.status = DRAFT

\* C38: a holdSeats request for the published event, with a valid number of
\* seats, that names a seat the event has no row for returns 404.
C38_UnknownSeatNotFound ==
    (/\ ret.op = "holdSeats"
     /\ event.exists /\ event.status = PUBLISHED
     /\ Cardinality(ret.seatIds) \in 1..env.maxSeatsPerHold
     /\ ~(ret.seatIds \subseteq DOMAIN seats))
    => ret.result = "404"

\* the hold is of the session of request r, or of its authenticated user
Owns(r, h) ==
    \/ holds[h].sessionId = r.sessionId
    \/ UserOf(r.sessionId) # Guest /\ UserOf(holds[h].sessionId) = UserOf(r.sessionId)

\* C33: requests served one after the other: in the step in which a
\* createCheckoutIntent request returns, if a requested seat is SOLD, or HELD
\* under a live hold that is neither of the caller's session nor of the
\* caller's user, the request returns 409 and no order row is created; and it
\* returns 409 only then.
C33_CheckoutOwnership ==
    [][ret'.op = "createCheckoutIntent"
       => LET sold == \E s \in ret'.seatIds : seats[s].status = SOLD
              foreign == \E s \in ret'.seatIds : \E h \in LiveHolder(s) : ~Owns(ret', h)
          IN /\ (sold \/ foreign) => (ret'.result = "409" /\ orders' = orders)
             /\ ret'.result = "409" => (sold \/ foreign)]_vars

\* C33's case: a checkout of a seat HELD under the live hold of the other
\* session of the same user has succeeded.
C33_Witness ==
    /\ ret.op = "createCheckoutIntent" /\ ret.result = "ok"
    /\ \E s \in ret.seatIds : \E h \in LiveHolder(s) :
          /\ holds[h].sessionId # ret.sessionId
          /\ UserOf(holds[h].sessionId) = UserOf(ret.sessionId)

\* C34: provider mode, requests served one after the other: no step of a
\* createCheckoutIntent request makes a seat SOLD or changes a requested seat
\* that is HELD under a hold row of the caller's session, so such a seat is
\* HELD under that hold when the call returns; and the order of a request
\* that succeeds is PENDING.
C34_CheckoutLeavesSeats ==
    [][/\ \A p \in Procs :
            (calls[p].op = "createCheckoutIntent" /\ calls'[p] # calls[p])
            => /\ \A s \in DOMAIN seats :
                    seats'[s].status = SOLD => seats[s].status = SOLD
               /\ \A s \in calls[p].seatIds :
                    (/\ seats[s].status = HELD /\ seats[s].holdId # Null
                     /\ holds[seats[s].holdId].exists
                     /\ holds[seats[s].holdId].sessionId = calls[p].sessionId)
                    => seats'[s] = seats[s]
       /\ (ret'.op = "createCheckoutIntent" /\ ret'.result = "ok")
          => orders'[ret'.orderId].paymentStatus = PENDING]_vars

\* C35: a payment_intent.payment_failed delivery sets the paymentStatus of
\* its order to FAILED and changes nothing else: the other fields of the
\* order, the other orders, the tickets, soldCount, every seat row, every
\* hold row and every cache entry are as before.
C35_FailureOnlyMarks ==
    [][ret'.op = "markOrderFailed"
       => /\ orders' = [orders EXCEPT ![ret'.orderId].paymentStatus = FAILED]
          /\ seats' = seats /\ holds' = holds /\ numHolds' = numHolds
          /\ cache' = cache
          /\ tickets' = tickets /\ soldCount' = soldCount /\ numOrders' = numOrders]_vars

\* C35's case: the failure delivery for an order has returned; the order is
\* FAILED and its seat is HELD under the live hold of the order's session,
\* with its cache entry.
C35_Witness ==
    /\ ret.op = "markOrderFailed"
    /\ orders[ret.orderId].paymentStatus = FAILED
    /\ \E s \in orders[ret.orderId].seatIds : \E h \in LiveHolder(s) :
          holds[h].sessionId = orders[ret.orderId].sessionId /\ cache[h].exists

\* C36: requests served one after the other: every seat that the controller
\* broadcasts as HELD after a successful holdSeats is, when the call returns,
\* HELD in its seat row under the hold returned.
C36_HeldBroadcastIsHeld ==
    (ret.op = "holdSeats" /\ ret.result = "ok")
    => \A u \in Broadcast(ret) :
           /\ seats[u.seatId].status = HELD
           /\ seats[u.seatId].holdId = ret.holdId

\* C39: the tickets of an order carry, for every seat id of either form, the
\* name and the price of the zone that priced the seat, and the ticket prices
\* add up to the order's subtotal.
C39_SameSection ==
    quote.pc = "ticketed"
    => /\ \A s \in quote.seatIds :
            /\ quote.ticketData[s].price = quote.perSeat[s]
            /\ quote.ticketData[s].ticketType = quote.pricingZones[PricingSection(s)].name
       /\ Total([s \in quote.seatIds |-> quote.ticketData[s].price], quote.seatIds)
            = quote.subtotal

====
